---- MODULE Spec2Model ----
(***************************************************************************)
(* Model of Acrylic.py: the cached load of the sales workbook              *)
(* (load_data_local), the brand filter of the sidebar, and the aggregated  *)
(* views of the four tabs.                                                 *)
(*                                                                         *)
(* A table is a sequence of rows (records).  A workbook cell is a string   *)
(* (its text) or, for the Date column, the integer YYYYMM.  Floating point *)
(* results are the records FNum/FInf/FNaN below: a ratio keeps numerator   *)
(* and denominator, so no rounding is modelled.                            *)
(***************************************************************************)
EXTENDS Integers, Sequences, FiniteSets, TLC

(***************************************************************************)
(* Bounds of the model.                                                    *)
(***************************************************************************)
\* rows of a workbook of the stability family (ASIN x month)
MaxRows == 3
\* rows of a workbook of the cell-value family (brand / amount / sales cells)
MaxValueRows == 2
\* quarters of a workbook of the quarter-series family
NumQuarters == 5

(***************************************************************************)
(* Floating point values as pandas produces them.                          *)
(***************************************************************************)
FNaN == [k |-> "nan", n |-> 0, d |-> 1]

FInf == [k |-> "inf", n |-> 0, d |-> 1]

FNum(a, b) == [k |-> "num", n |-> a, d |-> b]

\* float64 division a / b of two non-negative integers (b = 0: inf or NaN)
FDiv(a, b) ==
    IF b = 0 THEN (IF a = 0 THEN FNaN ELSE FInf) ELSE FNum(a, b)

\* x / y of two floats whose numeric values are non-negative integers
FDivF(x, y) ==
    IF x.k = "nan" \/ y.k = "nan" THEN FNaN
    ELSE IF x.k = "inf" \/ y.k = "inf" THEN FNaN
    ELSE FDiv(x.n, y.n)

\* x - 1
FSubOne(x) == IF x.k = "num" THEN FNum(x.n - x.d, x.d) ELSE x

RECURSIVE SumSeq(_)
SumSeq(s) == IF s = <<>> THEN 0 ELSE Head(s) + SumSeq(Tail(s))

RECURSIVE SortSet(_)
\* the elements of a finite set of integers, ascending
SortSet(S) ==
    IF S = {} THEN <<>>
    ELSE LET m == CHOOSE x \in S : \A y \in S : x <= y
         IN  <<m>> \o SortSet(S \ {m})

Range(s) == {s[i] : i \in DOMAIN s}

(***************************************************************************)
(* Cells and their conversions.                                            *)
(***************************************************************************)
\* a blank cell of a text column is read as NaN
NullCell == "NaN"

\* Brand cells that Excel holds as numbers (read as float64)
NumericBrands == {"7"}

\* the Python type of a Brand cell after read_excel
BrandKind(b) ==
    IF b = NullCell THEN "nan"
    ELSE IF b \in NumericBrands THEN "float" ELSE "str"

\* pd.to_numeric(cell, errors='coerce').fillna(0)
ToNumeric(c) ==
    CASE c = "0" -> 0
      [] c = "2" -> 2
      [] c = "50" -> 50
      [] OTHER -> 0

\* pd.to_datetime(cell, format='%Y%m') succeeds
DateParses(c) == (c % 100) \in 1..12

\* .dt.to_period('M').astype(str), as the sortable number YYYYMM
DateStr(c) == (c \div 100) * 100 + (c % 100)

\* .dt.to_period('Q').astype(str), "YYYYQn" as the sortable number YYYYn
QuarterOf(c) == (c \div 100) * 10 + (((c % 100) - 1) \div 3) + 1

\* .dt.year
YearOf(c) == c \div 100

IndependentMarkers == {"White", "Black", "Gold", "Silver", "Metallic"}

\* the marker substrings contained in an Ink_Color cell
ContainedMarkers(c) ==
    CASE c = "White" -> {"White"}
      [] c = "Gold Metallic" -> {"Gold", "Metallic"}
      [] OTHER -> {}

\* lambda x: 'Independent' if any(c in str(x) for c in [...]) else 'Assorted'
ColorType(c) ==
    IF ContainedMarkers(c) \cap IndependentMarkers # {}
    THEN "Independent" ELSE "Assorted"

(***************************************************************************)
(* The workbook (EXCEL_FILE) and the families of workbooks checked.        *)
(* A raw row has the cells ASIN, Brand, Date, Amount, Sales, InkType       *)
(* (ink delivery), PriceTier (price tier) and Ink_Color.                    *)
(***************************************************************************)
RawRow(asin, brand, date, amount, sales) ==
    [ASIN |-> asin, Brand |-> brand, Date |-> date, Amount |-> amount,
     Sales |-> sales,
     InkType |-> IF asin = "A1" THEN "Valve" ELSE "Pump",
     PriceTier |-> IF brand = "B1" THEN "Low" ELSE "High",
     Ink_Color |-> IF asin = "A1" THEN "Gold Metallic" ELSE "Assorted 24"]

Workbook(rows) == [exists |-> TRUE, missing |-> {}, rows |-> rows]

\* no file at EXCEL_FILE
MissingFile == [exists |-> FALSE, missing |-> {}, rows |-> <<>>]

\* non-decreasing index sequences of length n over 0..k-1: one row order per
\* multiset of rows (no grouped aggregate depends on the order of the rows)
Ascending(n, k) ==
    {s \in [1..n -> 0..(k - 1)] : \A i \in 1..(n - 1) : s[i] <= s[i + 1]}

\* stability family: ASIN A1 (brand B1) and A2 (brand B2) in Jan..Mar 2024
StabilityRow(i) ==
    RawRow(IF i % 2 = 0 THEN "A1" ELSE "A2",
           IF i % 2 = 0 THEN "B1" ELSE "B2",
           202401 + (i \div 2), "50", "2")

StabilityFiles ==
    UNION {{Workbook([j \in 1..n |-> StabilityRow(s[j])]) : s \in Ascending(n, 6)}
           : n \in 0..MaxRows}

BrandCells == <<"B1", "B2", "7", NullCell>>

\* cell-value family: one ASIN, one month, every Brand / Amount / Sales cell
ValueRow(i) ==
    RawRow("A1", BrandCells[(i % 4) + 1], 202401,
           IF (i \div 4) % 2 = 0 THEN "50" ELSE "abc",
           IF (i \div 8) % 2 = 0 THEN "2" ELSE "0")

ValueFiles ==
    UNION {{Workbook([j \in 1..n |-> ValueRow(s[j])]) : s \in Ascending(n, 16)}
           : n \in 1..MaxValueRows}

\* first month of the q-th quarter, counted from 2024Q1
QuarterDate(q) == (2024 + ((q - 1) \div 4)) * 100 + ((q - 1) % 4) * 3 + 1

QuarterCells == {<<"B1", "50">>, <<"B2", "50">>, <<"B1", "abc">>}

\* quarter-series family: one row in each of the first n quarters
QuarterFiles ==
    UNION {{Workbook([q \in 1..n |->
                        RawRow("A1", c[q][1], QuarterDate(q), c[q][2], "2")])
            : c \in [1..n -> QuarterCells]}
           : n \in 1..NumQuarters}

OneRow == <<RawRow("A1", "B1", 202401, "50", "2")>>

\* workbooks the load or the script cannot process
BadFiles ==
    {MissingFile,
     Workbook(<<RawRow("A1", "B1", 202413, "50", "2")>>)}
    \cup {[exists |-> TRUE, missing |-> {c}, rows |-> OneRow]
          : c \in {"ASIN", "Brand", "InkType", "PriceTier", "Ink_Color"}}

Files == StabilityFiles \cup ValueFiles \cup QuarterFiles \cup BadFiles

\* what the data producer may put in place of the workbook while the
\* dashboard runs
ReplacementFiles ==
    {MissingFile, Workbook(OneRow),
     Workbook(<<RawRow("A2", "B2", 202402, "50", "0")>>)}

(***************************************************************************)
(* load_data_local: the body behind st.cache_data.                         *)
(***************************************************************************)
\* columns that the body of load_data_local reads
LoadColumns == {"Date", "Amount", "Sales", "Price", "Rate", "UnitCount", "ASIN"}

\* df['Date'].nunique()
TotalMonths(rows) == Cardinality({rows[i].Date : i \in DOMAIN rows})

\* df.groupby('ASIN')['Date'].count(), for one ASIN
AsinCount(rows, asin) == Cardinality({i \in DOMAIN rows : rows[i].ASIN = asin})

\* the derived columns of lines 23-44, for every row
Enrich(rows) ==
    [i \in DOMAIN rows |->
        LET r == rows[i]
            amount == ToNumeric(r.Amount)
            sales == ToNumeric(r.Sales)
            listed == AsinCount(rows, r.ASIN)
        IN  [ASIN |-> r.ASIN, Brand |-> r.Brand, Date |-> r.Date,
             InkType |-> r.InkType, PriceTier |-> r.PriceTier,
             Ink_Color |-> r.Ink_Color,
             Date_Str |-> DateStr(r.Date), Quarter |-> QuarterOf(r.Date),
             Year |-> YearOf(r.Date),
             Amount |-> amount, Sales |-> sales,
             ASP |-> FDiv(amount, sales),
             MonthsListed |-> listed,
             Stability |-> FDiv(listed, TotalMonths(rows)),
             Color_Type |-> ""]]

\* columns that the script reads after the load
ViewColumns == {"Brand", "InkType", "PriceTier", "Ink_Color"}

\* pd.DataFrame(), 0: no rows and no columns
EmptyResult(error) ==
    [df |-> <<>>, missing |-> LoadColumns \cup ViewColumns, total |-> 0,
     error |-> error]

\* LoadBody with the except branch returning the rows read so far instead of
\* pd.DataFrame()
LoadBodyKeepsRows(f) ==
    IF ~f.exists THEN EmptyResult("FileNotFoundError")
    ELSE [df |-> Enrich(f.rows), missing |-> f.missing,
          total |-> TotalMonths(f.rows),
          error |-> IF f.missing \cap LoadColumns # {}
                       \/ \E i \in DOMAIN f.rows : ~DateParses(f.rows[i].Date)
                    THEN "Exception" ELSE "none"]

\* the value load_data_local returns for a workbook, with the st.error it
\* shows ("none": no error)
LoadBody(f) ==
    IF ~f.exists THEN EmptyResult("FileNotFoundError")
    ELSE IF f.missing \cap LoadColumns # {}
            \/ \E i \in DOMAIN f.rows : ~DateParses(f.rows[i].Date)
    THEN EmptyResult("Exception")
    ELSE [df |-> Enrich(f.rows), missing |-> f.missing,
          total |-> TotalMonths(f.rows), error |-> "none"]

(***************************************************************************)
(* Aggregation: groupby(...).sum(), unstack, div, pct_change.              *)
(***************************************************************************)
AmountsOf(rows) == [i \in DOMAIN rows |-> rows[i].Amount]

\* the columns that hold text, where a blank cell is NaN
TextColumns == {"ASIN", "Brand", "InkType", "PriceTier", "Ink_Color", "Color_Type"}

\* the tuple of a row's cells in the key columns
KeyOf(r, keys) == [j \in DOMAIN keys |-> r[keys[j]]]

\* a key cell of the row is NaN
HasNullKey(r, keys) ==
    \E j \in DOMAIN keys : keys[j] \in TextColumns /\ r[keys[j]] = NullCell

\* rows.groupby(keys)['Amount'].sum(): a row with a NaN key cell is dropped
\* (groupby's dropna=True)
GroupSum(rows, keys) ==
    LET kept == SelectSeq(rows, LAMBDA r : ~HasNullKey(r, keys))
    IN  [k \in {KeyOf(kept[i], keys) : i \in DOMAIN kept} |->
            SumSeq(AmountsOf(SelectSeq(kept, LAMBDA r : KeyOf(r, keys) = k)))]

\* groupby([period, 'Brand'])['Amount'].sum().unstack(fill_value=0):
\* index: the periods ascending; cells[p][b]: the sum, 0 where no row
BrandPivot(rows, period) ==
    LET g == GroupSum(rows, <<period, "Brand">>)
        periods == {k[1] : k \in DOMAIN g}
        brands == {k[2] : k \in DOMAIN g}
    IN  [index |-> SortSet(periods),
         columns |-> brands,
         cells |-> [p \in periods |->
                      [b \in brands |->
                          IF <<p, b>> \in DOMAIN g THEN g[<<p, b>>] ELSE 0]]]

RECURSIVE SumCells(_, _)
\* the sum of f over the set S
SumCells(f, S) ==
    IF S = {} THEN 0
    ELSE LET b == CHOOSE x \in S : TRUE IN f[b] + SumCells(f, S \ {b})

\* pivot.sum(axis=1), for one period
RowTotal(pivot, p) == SumCells(pivot.cells[p], pivot.columns)

\* pivot.div(pivot.sum(axis=1), axis=0)
Share(pivot) ==
    [p \in DOMAIN pivot.cells |->
        [b \in pivot.columns |-> FDiv(pivot.cells[p][b], RowTotal(pivot, p))]]

\* Shifted with shift(lag, fill_value=0)
ShiftedZeroFill(pivot, lag, i, b) ==
    IF i <= lag THEN FNum(0, 1) ELSE FNum(pivot.cells[pivot.index[i - lag]][b], 1)

\* pivot.shift(lag): the value lag rows earlier, NaN for the first lag rows
Shifted(pivot, lag, i, b) ==
    IF i <= lag THEN FNaN ELSE FNum(pivot.cells[pivot.index[i - lag]][b], 1)

\* pivot.pct_change(lag) = pivot / pivot.shift(lag) - 1, by row position
PctChange(pivot, lag) ==
    [i \in DOMAIN pivot.index |->
        [b \in pivot.columns |->
            FSubOne(FDivF(FNum(pivot.cells[pivot.index[i]][b], 1),
                          Shifted(pivot, lag, i, b)))]]

\* the lag of q_data.pct_change(4)
YoYLag == 4

\* groupby([ASIN, Brand, ..., InkType, ...]).agg(MonthsListed max, Amount sum)
AsinAttr(rows) ==
    LET keys == <<"ASIN", "Brand", "InkType">>
        kept == SelectSeq(rows, LAMBDA r : ~HasNullKey(r, keys))
    IN  [k \in {KeyOf(kept[i], keys) : i \in DOMAIN kept} |->
            LET grp == SelectSeq(kept, LAMBDA r : KeyOf(r, keys) = k)
                m == {grp[i].MonthsListed : i \in DOMAIN grp}
            IN  [MonthsListed |-> CHOOSE x \in m : \A y \in m : y <= x,
                 Amount |-> SumSeq(AmountsOf(grp))]]

(***************************************************************************)
(* The state: the workbook on disk, the st.cache_data entry of             *)
(* load_data_local, the multiselect's widget state (kept across reruns of  *)
(* the script), and the script run in progress.                            *)
(***************************************************************************)
\* the workbook at EXCEL_FILE
VARIABLE file
\* the st.cache_data(ttl=3600) entry of load_data_local(EXCEL_FILE)
VARIABLE cache
\* the session's state of the brand multiselect
VARIABLE widget
\* the script's position in the current run
VARIABLE pc
\* the script's df: its rows and the columns it lacks
VARIABLE df
\* the script's total_periods
VARIABLE total_periods
\* the st.error shown by the load in this run ("none": none)
VARIABLE load_error
\* the multiselect's value in this run
VARIABLE selected_brands
\* the script's df_filtered
VARIABLE df_filtered
\* the view results computed in this run, by tab
VARIABLE tab1
VARIABLE tab2
VARIABLE tab3
VARIABLE tab4

vars == <<file, cache, widget, pc, df, total_periods, load_error,
          selected_brands, df_filtered, tab1, tab2, tab3, tab4>>

NoPivot == [index |-> <<>>, columns |-> {}, cells |-> <<>>]

NoTab1 == [rendered |-> {}, monthly_sales |-> <<>>, year_ink |-> <<>>]

NoTab2 == [rendered |-> {}, q_data |-> NoPivot, yoy |-> <<>>, q_share |-> <<>>,
           y_data |-> NoPivot, y_share |-> <<>>, asin_attr |-> <<>>]

NoTab3 == [rendered |-> {}, price_q |-> <<>>, price_tbl |-> <<>>]

NoTab4 == [rendered |-> {}, c_trend |-> <<>>]

NoDf == [rows |-> <<>>, missing |-> {}]

\* the script's variables before line 55 of a run
RunStart ==
    /\ pc' = "load"
    /\ df' = NoDf
    /\ total_periods' = 0
    /\ load_error' = "none"
    /\ selected_brands' = {}
    /\ df_filtered' = <<>>
    /\ tab1' = NoTab1
    /\ tab2' = NoTab2
    /\ tab3' = NoTab3
    /\ tab4' = NoTab4

Init ==
    /\ file \in Files
    /\ cache = [state |-> "cold", value |-> EmptyResult("none")]
    /\ widget = [touched |-> FALSE, options |-> {}, value |-> {}]
    /\ pc = "load"
    /\ df = NoDf
    /\ total_periods = 0
    /\ load_error = "none"
    /\ selected_brands = {}
    /\ df_filtered = <<>>
    /\ tab1 = NoTab1
    /\ tab2 = NoTab2
    /\ tab3 = NoTab3
    /\ tab4 = NoTab4

\* df, total_periods = <result>: the script gets its own copy of the result
Receive(result) ==
    /\ df' = [rows |-> result.df, missing |-> result.missing]
    /\ total_periods' = result.total
    /\ load_error' = result.error
    /\ pc' = "guard"
    /\ UNCHANGED <<file, widget, selected_brands, df_filtered,
                   tab1, tab2, tab3, tab4>>

\* line 55, no live cache entry: the body runs and its result is cached
\* (a result returned by an except branch is cached like any other)
LoadMiss ==
    /\ pc = "load"
    /\ cache.state # "fresh"
    /\ cache' = [state |-> "fresh", value |-> LoadBody(file)]
    /\ Receive(LoadBody(file))

\* line 55, live cache entry: the cached result (and its st.error) is replayed
LoadHit ==
    /\ pc = "load"
    /\ cache.state = "fresh"
    /\ UNCHANGED cache
    /\ Receive(cache.value)

\* df.empty
DfEmpty(d) == d.rows = <<>>

\* lines 57-59: st.stop() on an empty df
Guard ==
    /\ pc = "guard"
    /\ pc' = IF DfEmpty(df) THEN "stopped" ELSE "sidebar"
    /\ UNCHANGED <<file, cache, widget, df, total_periods, load_error,
                   selected_brands, df_filtered, tab1, tab2, tab3, tab4>>

\* df['Brand'].unique()
AllBrands(rows) == {rows[i].Brand : i \in DOMAIN rows}

\* sorted(...) raises TypeError when it compares a str with a float (NaN is
\* a float): whenever the list holds both
SortRaises(brands) ==
    \E a, b \in brands : BrandKind(a) = "str" /\ BrandKind(b) # "str"

\* the multiselect's value: the default (all options) until the user has
\* chosen; a widget whose options changed is a new widget
MultiselectValue(w, options) ==
    IF w.touched /\ w.options = options THEN w.value ELSE options

\* FilterBrands with the stability columns recomputed over the filtered rows
FilterBrandsRecount(rows, selected) ==
    LET kept == SelectSeq(rows, LAMBDA r : r.Brand \in selected)
    IN  [i \in DOMAIN kept |->
            [kept[i] EXCEPT
                !.MonthsListed = AsinCount(kept, kept[i].ASIN),
                !.Stability = FDiv(AsinCount(kept, kept[i].ASIN),
                                   TotalMonths(kept))]]

\* df[df['Brand'].isin(selected)]
FilterBrands(rows, selected) ==
    SelectSeq(rows, LAMBDA r : r.Brand \in selected)

\* lines 63-68
Sidebar ==
    /\ pc = "sidebar"
    /\ IF "Brand" \in df.missing \/ SortRaises(AllBrands(df.rows))
       THEN /\ pc' = "crashed"
            /\ UNCHANGED <<selected_brands, df_filtered>>
       ELSE /\ selected_brands' = MultiselectValue(widget, AllBrands(df.rows))
            /\ df_filtered' = FilterBrands(df.rows, selected_brands')
            /\ pc' = "tab1"
    /\ UNCHANGED <<file, cache, widget, df, total_periods, load_error,
                   tab1, tab2, tab3, tab4>>

\* lines 80-94: monthly_sales, then year_ink (which reads the ink column)
Tab1 ==
    /\ pc = "tab1"
    /\ LET monthly == GroupSum(df_filtered, <<"Date_Str", "Brand">>)
       IN  IF "InkType" \in df.missing
           THEN /\ tab1' = [tab1 EXCEPT !.rendered = {"monthly_sales"},
                                        !.monthly_sales = monthly]
                /\ pc' = "crashed"
           ELSE /\ tab1' = [rendered |-> {"monthly_sales", "year_ink"},
                            monthly_sales |-> monthly,
                            year_ink |-> GroupSum(df_filtered, <<"Year", "InkType">>)]
                /\ pc' = "tab2"
    /\ UNCHANGED <<file, cache, widget, df, total_periods, load_error,
                   selected_brands, df_filtered, tab2, tab3, tab4>>

\* lines 103-141: the brand matrices are built from df, the ASIN table from
\* df_filtered
Tab2 ==
    /\ pc = "tab2"
    /\ LET q_data == BrandPivot(df.rows, "Quarter")
           y_data == BrandPivot(df.rows, "Year")
       IN  tab2' = [rendered |-> {"yoy", "q_share", "y_share", "asin_attr"},
                    q_data |-> q_data,
                    yoy |-> PctChange(q_data, YoYLag),
                    q_share |-> Share(q_data),
                    y_data |-> y_data,
                    y_share |-> Share(y_data),
                    asin_attr |-> AsinAttr(df_filtered)]
    /\ pc' = "tab3"
    /\ UNCHANGED <<file, cache, widget, df, total_periods, load_error,
                   selected_brands, df_filtered, tab1, tab3, tab4>>

\* lines 146-150: price_q and price_tbl, built from df
Tab3 ==
    /\ pc = "tab3"
    /\ IF "PriceTier" \in df.missing
       THEN /\ pc' = "crashed"
            /\ UNCHANGED tab3
       ELSE /\ tab3' = [rendered |-> {"price_q", "price_tbl"},
                        price_q |-> GroupSum(df.rows, <<"Quarter", "PriceTier">>),
                        price_tbl |-> GroupSum(df.rows, <<"PriceTier", "Year">>)]
            /\ pc' = "tab4"
    /\ UNCHANGED <<file, cache, widget, df, total_periods, load_error,
                   selected_brands, df_filtered, tab1, tab2, tab4>>

\* df['Color_Type'] = df['Ink_Color'].apply(...)
WithColorType(rows) ==
    [i \in DOMAIN rows |->
        [rows[i] EXCEPT !.Color_Type = ColorType(rows[i].Ink_Color)]]

\* CacheAfterAssign for a cache that hands out the cached object itself
\* (st.cache_resource): the assignment lands in the entry
CacheAliased(entry, rows) == [entry EXCEPT !.value.df = rows]

\* the cache entry after the script has assigned a column to its df:
\* st.cache_data hands every caller its own copy, so the entry is not reached
CacheAfterAssign(entry, rows) == entry

\* lines 158-174: the column assignment to df, then c_trend built from df
Tab4 ==
    /\ pc = "tab4"
    /\ IF "Ink_Color" \in df.missing
       THEN /\ pc' = "crashed"
            /\ UNCHANGED <<df, cache, tab4>>
       ELSE /\ df' = [df EXCEPT !.rows = WithColorType(df.rows)]
            /\ cache' = CacheAfterAssign(cache, df'.rows)
            /\ tab4' = [rendered |-> {"c_trend"},
                        c_trend |-> GroupSum(df'.rows, <<"Date_Str", "Color_Type">>)]
            /\ pc' = "done"
    /\ UNCHANGED <<file, widget, total_periods, load_error,
                   selected_brands, df_filtered, tab1, tab2, tab3>>

\* no script run is in progress
Idle == pc \in {"done", "stopped", "crashed"}

\* the user changes the brand selection: the script reruns from the top
SelectBrands(S) ==
    /\ pc = "done"
    /\ S # selected_brands
    /\ widget' = [touched |-> TRUE, options |-> AllBrands(df.rows), value |-> S]
    /\ RunStart
    /\ UNCHANGED <<file, cache>>

\* any other interaction (the metric selectbox, a page reload): a rerun
Rerun ==
    /\ Idle
    /\ RunStart
    /\ UNCHANGED <<file, cache, widget>>

\* ttl=3600: the entry expires.  The entry is read at line 55 only, so an
\* expiry during a run acts as one before the next run.
Expire ==
    /\ Idle
    /\ cache.state = "fresh"
    /\ cache' = [state |-> "expired", value |-> EmptyResult("none")]
    /\ UNCHANGED <<file, widget, pc, df, total_periods, load_error,
                   selected_brands, df_filtered, tab1, tab2, tab3, tab4>>

\* the data producer replaces the workbook; the cache key is the path, so
\* the entry stays as it is
FileChange ==
    /\ Idle
    /\ file' \in ReplacementFiles \ {file}
    /\ UNCHANGED <<cache, widget, pc, df, total_periods, load_error,
                   selected_brands, df_filtered, tab1, tab2, tab3, tab4>>

Next ==
    \/ LoadMiss
    \/ LoadHit
    \/ Guard
    \/ Sidebar
    \/ Tab1
    \/ Tab2
    \/ Tab3
    \/ Tab4
    \/ \E S \in SUBSET AllBrands(df.rows) : SelectBrands(S)
    \/ Rerun
    \/ Expire
    \/ FileChange

Spec == Init /\ [][Next]_vars

(***************************************************************************)
(* Properties.                                                             *)
(***************************************************************************)
\* the load of this run has returned
Loaded == pc # "load"

\* the brand filter of this run has been computed
Filtered == pc \in {"tab1", "tab2", "tab3", "tab4", "done"}

\* C1: after load_data_local every row has months listed <= total months and
\* a stability score in [0, 1]
C1_MonthsWithinTotal ==
    Loaded =>
        \A i \in DOMAIN df.rows :
            /\ df.rows[i].MonthsListed <= total_periods
            /\ df.rows[i].Stability.k = "num"
            /\ 0 <= df.rows[i].Stability.n
            /\ df.rows[i].Stability.n <= df.rows[i].Stability.d

\* the number of distinct months in which an ASIN appears in a table
DistinctMonths(rows, asin) ==
    Cardinality({rows[j].Date_Str : j \in {k \in DOMAIN rows : rows[k].ASIN = asin}})

\* C2: the months listed of every row is the number of distinct months in
\* which its ASIN appears in the whole dataset, and total months is the
\* number of distinct months of the dataset
C2_MonthsListedDistinct ==
    Loaded =>
        /\ \A i \in DOMAIN df.rows :
              df.rows[i].MonthsListed = DistinctMonths(df.rows, df.rows[i].ASIN)
        /\ df.rows # <<>> =>
              total_periods = Cardinality({df.rows[i].Date_Str : i \in DOMAIN df.rows})

\* C3: a row whose sales value is 0 has an ASP of exactly 0, neither infinite
\* nor not-a-number
C3_ZeroSalesZeroAsp ==
    Loaded =>
        \A i \in DOMAIN df.rows :
            df.rows[i].Sales = 0 =>
                df.rows[i].ASP.k = "num" /\ df.rows[i].ASP.n = 0

\* the rows of the script's df whose brand is in the current selection
SelectedRows ==
    SelectSeq(df.rows, LAMBDA r : r.Brand \in selected_brands)

\* C4: every aggregating view is computed over the rows of the selected
\* brands only
C4_ViewsOverSelection ==
    pc = "done" =>
        /\ tab1.monthly_sales =
              GroupSum(SelectedRows, <<"Date_Str", "Brand">>)
        /\ tab1.year_ink =
              GroupSum(SelectedRows, <<"Year", "InkType">>)
        /\ tab2.q_data = BrandPivot(SelectedRows, "Quarter")
        /\ tab2.y_data = BrandPivot(SelectedRows, "Year")
        /\ tab2.asin_attr = AsinAttr(SelectedRows)
        /\ tab3.price_q =
              GroupSum(SelectedRows, <<"Quarter", "PriceTier">>)
        /\ tab3.price_tbl =
              GroupSum(SelectedRows, <<"PriceTier", "Year">>)
        /\ tab4.c_trend =
              GroupSum(SelectedRows, <<"Date_Str", "Color_Type">>)

\* C5: with an empty brand selection the filtered rows are the whole table
C5_EmptySelectionIsAll ==
    (Filtered /\ selected_brands = {}) => df_filtered = df.rows

\* C6: whatever brand selections were made, every filtered row carries the
\* months listed and stability score computed at load over the whole
\* dataset, and total months is the one computed at load
C6_StabilityUnderFilter ==
    (Filtered /\ cache.state = "fresh") =>
        /\ total_periods = cache.value.total
        /\ \A i \in DOMAIN df_filtered :
              \E j \in DOMAIN cache.value.df :
                  /\ cache.value.df[j].ASIN = df_filtered[i].ASIN
                  /\ cache.value.df[j].Date = df_filtered[i].Date
                  /\ cache.value.df[j].Brand = df_filtered[i].Brand
                  /\ cache.value.df[j].MonthsListed = df_filtered[i].MonthsListed
                  /\ cache.value.df[j].Stability = df_filtered[i].Stability

\* C6 witness: after a brand-filter change, a run whose filter kept some rows
\* of a two-month dataset and dropped others
C6_Witness ==
    /\ pc = "done"
    /\ widget.touched
    /\ cache.state = "fresh"
    /\ df_filtered # <<>>
    /\ Len(df_filtered) < Len(df.rows)
    /\ total_periods >= 2

\* C7: after a failed load the run halts: no brand filter and no view is
\* computed
C7_HaltOnLoadFailure ==
    load_error # "none" =>
        /\ pc \in {"guard", "stopped"}
        /\ selected_brands = {}
        /\ df_filtered = <<>>
        /\ tab1.rendered \cup tab2.rendered \cup tab3.rendered \cup tab4.rendered = {}

\* C7 witness: a run stopped by st.stop() after the load raised an exception
\* other than FileNotFoundError
C7_Witness == pc = "stopped" /\ load_error = "Exception"

\* the Amount total of the rows of a table in one period
PeriodTotal(rows, period, p) ==
    SumSeq(AmountsOf(SelectSeq(rows, LAMBDA r : r[period] = p)))

\* the shares of one period sum to 1: they have the period's total as their
\* common denominator, and their numerators sum to it
SharesSumToOne(pivot, share, p) ==
    /\ \A b \in pivot.columns :
          share[p][b].k = "num" /\ share[p][b].d = RowTotal(pivot, p)
    /\ SumCells([b \in pivot.columns |-> share[p][b].n], pivot.columns)
          = RowTotal(pivot, p)

\* C8: in the brand pivots the cells of a period sum to the Amount total of
\* all rows of that period (rows with a null-like brand included), and the
\* shares of a period with a non-zero total sum to 1
C8_PivotRowTotals ==
    pc \in {"tab3", "tab4", "done"} =>
        /\ \A p \in DOMAIN tab2.q_data.cells :
              /\ RowTotal(tab2.q_data, p)
                    = PeriodTotal(df.rows, "Quarter", p)
              /\ RowTotal(tab2.q_data, p) # 0 =>
                    SharesSumToOne(tab2.q_data, tab2.q_share, p)
        /\ \A p \in DOMAIN tab2.y_data.cells :
              /\ RowTotal(tab2.y_data, p)
                    = PeriodTotal(df.rows, "Year", p)
              /\ RowTotal(tab2.y_data, p) # 0 =>
                    SharesSumToOne(tab2.y_data, tab2.y_share, p)

\* C9: in the quarterly year-over-year table every cell of the first 4
\* periods is a gap (NaN), for every brand
C9_YoYGapBeforeLag ==
    pc \in {"tab3", "tab4", "done"} =>
        \A i \in DOMAIN tab2.yoy :
            i <= 4 => \A b \in DOMAIN tab2.yoy[i] : tab2.yoy[i][b] = FNaN

\* C9 witness: a series of at least 5 quarters with a non-zero amount in the
\* first and a defined change in the fifth
C9_Witness ==
    /\ pc = "done"
    /\ Len(tab2.q_data.index) >= 5
    /\ \E b \in tab2.q_data.columns :
          /\ tab2.q_data.cells[tab2.q_data.index[1]][b] > 0
          /\ tab2.yoy[5][b].k = "num"

\* C10: a live cache entry is left as it is by every step but its expiry,
\* and the load body fills the entry only at line 55 with no live entry
C10_CacheImmutable ==
    [][/\ cache.state = "fresh" =>
             cache' = cache \/ cache'.state = "expired"
       /\ (cache' # cache /\ cache'.state = "fresh") =>
             pc = "load" /\ cache.state \in {"cold", "expired"}]_vars

\* C10 witness: a finished run that followed a brand-filter change and
\* assigned Color_Type to its df, with the entry live and without the column
C10_Witness ==
    /\ pc = "done"
    /\ widget.touched
    /\ cache.state = "fresh"
    /\ \E i \in DOMAIN df.rows :
          /\ df.rows[i].Color_Type # ""
          /\ cache.value.df[i].Color_Type = ""

====
